---------------------------- MODULE Spec2Model ----------------------------
(***************************************************************************)
(* MinuteAI: the meeting flows (generateMinutesOfMeeting,                  *)
(* summarizeMeetingKeyPoints, extractActionItems, transcribeVideo) and the *)
(* K-means clustering example (src/lib/kmeans-clustering-example.ts).      *)
(*                                                                         *)
(* Numbers.  The K-means code computes in IEEE doubles and compares        *)
(* Math.sqrt of sums of squares.  The model computes exactly: a centroid   *)
(* is a vector of numerators over one common denominator (the cluster      *)
(* size), a distance is represented by its square as a fraction, and two   *)
(* distances are compared by cross-multiplication.  sqrt is strictly       *)
(* increasing, so the order of the distances is the order of the squares.  *)
(***************************************************************************)
EXTENDS Integers, Sequences, FiniteSets, TLC

VARIABLES
  \* ---- kmeans-clustering-example.ts
  vocabulary,     \* module constant `vocabulary` (line 50)
  data,           \* kMeans parameter `data`
  k,              \* kMeans parameter `k`
  centroids,      \* local `centroids`: cluster index 0..k-1 -> centroid
  assignments,    \* local `assignments`
  changed,        \* local `changed`
  kmPc,           \* position in kMeans: "call", "loop", "done"
  kmResult,       \* the value kMeans returned
  prevCentroids,  \* history: `centroids` before the latest update step
  hadEmpty,       \* history: some iteration left a cluster without points
  iters           \* history: loop iterations run so far (saturates at IterCap)

kmVars == <<vocabulary, data, k, centroids, assignments, changed, kmPc,
            kmResult, prevCentroids, hadEmpty, iters>>

VARIABLES
  \* ---- ai/flows/*.ts
  registry,       \* the shared `ai` registry: action name -> the invocation
                  \* whose definition it holds (0: not defined)
  inv             \* the invocations of the exported functions, each a record
                  \* of its position, flow, input, calls, request, response
                  \* and outcome

flowVars == <<registry, inv>>

vars == <<kmVars, flowVars>>

----------------------------------------------------------------------------
\* Bounds of the K-means inputs drawn in InitKM.
MaxDim == 2
MaxPoints == 3
MaxK == 3
IterCap == 4

\* Bound of the flows: how many invocations may be in flight together.
MaxInv == 2

----------------------------------------------------------------------------
\* ---- sequences

\* reduce((sum, curr) => sum + curr, 0)
SumOf[s \in Seq(Int)] == IF s = <<>> THEN 0 ELSE Head(s) + SumOf[Tail(s)]

SumSeq(s) == SumOf[s]

RECURSIVE Flatten(_)
Flatten(ss) == IF ss = <<>> THEN <<>> ELSE Head(ss) \o Flatten(Tail(ss))

Range(s) == {s[i] : i \in DOMAIN s}

\* [...new Set(words)]: the distinct elements in order of first appearance.
RECURSIVE Dedup(_, _)
Dedup(s, seen) ==
  IF s = <<>> THEN <<>>
  ELSE IF Head(s) \in seen THEN Dedup(Tail(s), seen)
       ELSE <<Head(s)>> \o Dedup(Tail(s), seen \cup {Head(s)})

\* Array.prototype.filter, keeping order.
RECURSIVE FilterIdx(_, _, _)
FilterIdx(s, keep, i) ==
  IF i > Len(s) THEN <<>>
  ELSE (IF i \in keep THEN <<s[i]>> ELSE <<>>) \o FilterIdx(s, keep, i + 1)

----------------------------------------------------------------------------
\* ---- sample data, preprocessing and vectorization

\* `sentences`: the six lines of sampleTranscript after trim, toLowerCase
\* and the removal of every character that is neither \w nor \s, each given
\* as the array sentence.split(' ') yields.
sentences ==
  << <<"sarah", "the", "new", "ad", "designs", "for", "the", "campaign",
       "are", "ready", "for", "review">>,
     <<"tom", "i", "am", "concerned", "about", "the", "color", "palette",
       "on", "the", "facebook", "ads">>,
     <<"maya", "the", "blog", "post", "about", "our", "top", "10",
       "features", "is", "halfway", "done">>,
     <<"sarah", "we", "need", "to", "finalize", "the", "launch", "date",
       "for", "the", "marketing", "campaign">>,
     <<"tom", "the", "visuals", "for", "instagram", "look", "solid", "the",
       "colors", "work", "well", "there">>,
     <<"maya", "i", "will", "finish", "the", "draft", "of", "the", "blog",
       "post", "by", "this", "friday">> >>

\* [...new Set(sentences.join(' ').split(' '))].filter(Boolean)
Vocabulary(sents) ==
  LET all == Dedup(Flatten(sents), {})
  IN  FilterIdx(all, {i \in DOMAIN all : all[i] # ""}, 1)

\* sentences.map(sentence => vocabulary.map(word => has(word) ? 1 : 0))
Vectors(sents, vocab) ==
  [s \in DOMAIN sents |->
     [w \in DOMAIN vocab |-> IF vocab[w] \in Range(sents[s]) THEN 1 ELSE 0]]

numberOfClusters == 2

----------------------------------------------------------------------------
\* ---- K-means

Sq(x) == x * x

\* A data point as a centroid (centroids = data.slice(0, k)).
AsCentroid(point) == [num |-> point, den |-> 1]

\* euclideanDistance(a, b), represented by its square as the fraction n/d:
\* the sum over the indices of a of (a[i] - b[i]) ** 2, b[i] = b.num[i]/b.den.
euclideanDistance(a, b) ==
  [n |-> SumSeq([i \in DOMAIN a |-> Sq(b.den * a[i] - b.num[i])]),
   d |-> Sq(b.den)]

Infinity == [n |-> 1, d |-> 0]

\* A faulty variant of the comparison below: distance <= minDistance.
DistLessLoose(x, y) ==
  IF y.d = 0 THEN x.d # 0 ELSE x.d # 0 /\ x.n * y.d <= y.n * x.d

\* distance < minDistance (minDistance may still be Infinity).
DistLess(x, y) ==
  IF y.d = 0 THEN x.d # 0 ELSE x.d # 0 /\ x.n * y.d < y.n * x.d

\* The distance line 95 computes for each point and each centroid.
Distances(dat, cents, kk) ==
  [p \in DOMAIN dat |->
     [index \in 0..(kk - 1) |-> euclideanDistance(dat[p], cents[index])]]

\* centroids.forEach((centroid, index) => { if (distance < minDistance) ... })
\* for one point, `distances` being its distance to each centroid.
RECURSIVE ForEachCentroid(_, _, _, _, _)
ForEachCentroid(distances, kk, index, minDistance, closestCentroidIndex) ==
  IF index >= kk THEN closestCentroidIndex
  ELSE IF DistLess(distances[index], minDistance)
       THEN ForEachCentroid(distances, kk, index + 1, distances[index], index)
       ELSE ForEachCentroid(distances, kk, index + 1, minDistance,
                            closestCentroidIndex)

\* A faulty variant of the map body below: a 1-based cluster index.
ClosestOffByOne(distances, kk) ==
  ForEachCentroid(distances, kk, 0, Infinity, 0) + 1

\* The body of data.map(point => ...): minDistance = Infinity,
\* closestCentroidIndex = 0, then the forEach.
ClosestCentroidIndex(distances, kk) ==
  ForEachCentroid(distances, kk, 0, Infinity, 0)

\* newAssignments, given every point's distances.
NewAssignments(distances, kk) ==
  [p \in DOMAIN distances |-> ClosestCentroidIndex(distances[p], kk)]

\* A faulty variant of the test below: every pass counts as a change.
AlwaysChanged(old, new) == TRUE

\* assignments.length !== newAssignments.length ||
\* newAssignments.some((a, i) => a !== assignments[i])
AssignmentsChanged(old, new) ==
  \/ Len(old) # Len(new)
  \/ \E i \in DOMAIN new : new[i] # old[i]

\* data.filter((_, index) => assignments[index] === i)
ClusterPoints(dat, asg, i) ==
  FilterIdx(dat, {p \in DOMAIN dat : p \in DOMAIN asg /\ asg[p] = i}, 1)

\* vocabulary.map((_, wordIndex) => reduce(sum + p[wordIndex], 0) / length)
MeanOf(clusterPoints, vocab) ==
  [num |-> [w \in DOMAIN vocab |->
              SumSeq([p \in DOMAIN clusterPoints |-> clusterPoints[p][w]])],
   den |-> Len(clusterPoints)]

\* The for loop of step 3, given each cluster's clusterPoints: a non-empty
\* cluster's centroid becomes the mean of its points, an empty cluster's
\* centroid is left as it is.
UpdateCentroids(clusterPoints, cents, kk, vocab) ==
  [i \in 0..(kk - 1) |->
     IF Len(clusterPoints[i]) > 0 THEN MeanOf(clusterPoints[i], vocab)
     ELSE cents[i]]

\* if (data.length < k) return data.map((_, i) => i)
EarlyReturn ==
  /\ kmPc = "call"
  /\ Len(data) < k
  /\ kmResult' = [i \in DOMAIN data |-> i - 1]
  /\ kmPc' = "done"
  /\ UNCHANGED <<vocabulary, data, k, centroids, assignments, changed,
                 prevCentroids, hadEmpty, iters, flowVars>>

\* centroids = data.slice(0, k); assignments = []; changed = true
Initialize ==
  /\ kmPc = "call"
  /\ ~(Len(data) < k)
  /\ centroids' = [i \in 0..(k - 1) |-> AsCentroid(data[i + 1])]
  /\ prevCentroids' = centroids'
  /\ assignments' = <<>>
  /\ changed' = TRUE
  /\ kmPc' = "loop"
  /\ UNCHANGED <<vocabulary, data, k, kmResult, hadEmpty, iters, flowVars>>

\* One pass through the body of while (changed): step 2 (newAssignments),
\* the comparison with `assignments`, step 3 (the centroids' update).
Iterate ==
  /\ kmPc = "loop"
  /\ changed
  /\ \E distances \in {Distances(data, centroids, k)} :
     \E newAssignments \in {NewAssignments(distances, k)} :
     \E chg \in {AssignmentsChanged(assignments, newAssignments)} :
     \E asg \in {IF chg THEN newAssignments ELSE assignments} :
     \E clusterPoints \in {[i \in 0..(k - 1) |-> ClusterPoints(data, asg, i)]} :
       /\ assignments' = asg
       /\ changed' = chg
       /\ prevCentroids' = centroids
       /\ centroids' = UpdateCentroids(clusterPoints, centroids, k, vocabulary)
       /\ hadEmpty' = (hadEmpty \/ \E i \in 0..(k - 1) :
                                    Len(clusterPoints[i]) = 0)
  /\ iters' = IF iters < IterCap THEN iters + 1 ELSE iters
  /\ UNCHANGED <<vocabulary, data, k, kmPc, kmResult, flowVars>>

\* The loop condition fails: return assignments
Return ==
  /\ kmPc = "loop"
  /\ ~changed
  /\ kmResult' = assignments
  /\ kmPc' = "done"
  /\ UNCHANGED <<vocabulary, data, k, centroids, assignments, changed,
                 prevCentroids, hadEmpty, iters, flowVars>>

NextKM == EarlyReturn \/ Initialize \/ Iterate \/ Return

----------------------------------------------------------------------------
\* ---- JavaScript values

Str(x) == [t |-> "string", v |-> x]
Num == [t |-> "number", v |-> 42]
Undefined == [t |-> "undefined", v |-> 0]
Null == [t |-> "null", v |-> 0]
Obj(fields) == [t |-> "object", v |-> fields]
Arr(items) == [t |-> "array", v |-> items]

\* ---- declared data contracts (zod schemas)

ZString == [kind |-> "string", optional |-> FALSE]
ZOptionalString == [kind |-> "string", optional |-> TRUE]
ZObject(fields) == [kind |-> "object", optional |-> FALSE, fields |-> fields]
ZArray(of) == [kind |-> "array", optional |-> FALSE, of |-> of]
\* No contract (z.any()).
ZAny == [kind |-> "any", optional |-> TRUE]

\* Whether value v passes schema: a string for z.string(), also undefined
\* when .optional(); an object whose declared fields pass for z.object();
\* an array whose items pass for z.array().  .describe() checks nothing.
RECURSIVE Conforms(_, _)
Conforms(v, schema) ==
  CASE schema.kind = "any" -> TRUE
    [] schema.kind = "string" ->
         v.t = "string" \/ (schema.optional /\ v.t = "undefined")
    [] schema.kind = "object" ->
         /\ v.t = "object"
         /\ \A name \in DOMAIN schema.fields :
              Conforms(IF name \in DOMAIN v.v THEN v.v[name] ELSE Undefined,
                       schema.fields[name])
    [] schema.kind = "array" ->
         /\ v.t = "array"
         /\ \A i \in DOMAIN v.v : Conforms(v.v[i], schema.of)

Flows == {"generateMinutesOfMeeting", "summarizeMeetingKeyPoints",
          "extractActionItems", "transcribeVideo"}

PromptFlows == Flows \ {"transcribeVideo"}

GenerateMinutesOfMeetingInputSchema ==
  ZObject([transcription |-> ZString, previousMom |-> ZOptionalString])

GenerateMinutesOfMeetingOutputSchema ==
  ZObject([summary |-> ZString, minutesOfMeeting |-> ZString,
           actionItems |-> ZString])

SummarizeMeetingKeyPointsInputSchema ==
  ZObject([transcription |-> ZString, previousMom |-> ZOptionalString])

SummarizeMeetingKeyPointsOutputSchema == ZObject([summary |-> ZString])

ExtractActionItemsInputSchema == ZObject([transcript |-> ZString])

ExtractActionItemsOutputSchema ==
  ZObject([actionItems |->
             ZArray(ZObject([task |-> ZString, owner |-> ZString,
                             deadline |-> ZString]))])

TranscribeVideoInputSchema == ZObject([videoDataUri |-> ZString])

TranscribeVideoOutputSchema == ZObject([transcript |-> ZString])

\* defineFlow({name, inputSchema, outputSchema}, ...) of each function.
FlowName(f) ==
  CASE f = "generateMinutesOfMeeting" -> "generateMinutesOfMeetingFlow"
    [] f = "summarizeMeetingKeyPoints" -> "summarizeMeetingKeyPointsFlow"
    [] f = "extractActionItems" -> "extractActionItemsFlow"
    [] f = "transcribeVideo" -> "transcribeVideoFlow"

FlowInputSchema(f) ==
  CASE f = "generateMinutesOfMeeting" -> GenerateMinutesOfMeetingInputSchema
    [] f = "summarizeMeetingKeyPoints" -> SummarizeMeetingKeyPointsInputSchema
    [] f = "extractActionItems" -> ExtractActionItemsInputSchema
    [] f = "transcribeVideo" -> TranscribeVideoInputSchema

\* A faulty variant of FlowOutputSchema: defineFlow without an outputSchema.
FlowWithoutOutputSchema(f) == ZAny

FlowOutputSchema(f) ==
  CASE f = "generateMinutesOfMeeting" -> GenerateMinutesOfMeetingOutputSchema
    [] f = "summarizeMeetingKeyPoints" -> SummarizeMeetingKeyPointsOutputSchema
    [] f = "extractActionItems" -> ExtractActionItemsOutputSchema
    [] f = "transcribeVideo" -> TranscribeVideoOutputSchema

\* definePrompt({name, ...}) of the three functions that define a prompt.
PromptName(f) ==
  CASE f = "generateMinutesOfMeeting" -> "generateMinutesOfMeetingPrompt"
    [] f = "summarizeMeetingKeyPoints" -> "summarizeMeetingKeyPointsPrompt"
    [] f = "extractActionItems" -> "extractActionItemsPrompt"

ActionNames ==
  {FlowName(f) : f \in Flows} \cup {PromptName(f) : f \in PromptFlows}

\* The names one invocation of f defines.
DefinedBy(f) ==
  {FlowName(f)} \cup (IF f \in PromptFlows THEN {PromptName(f)} ELSE {})

\* Handlebars {{#if x}}: undefined, null and the empty string are falsy.
Truthy(v) ==
  CASE v.t = "string" -> v.v # ""
    [] v.t \in {"undefined", "null"} -> FALSE
    [] OTHER -> TRUE

\* The instruction a prompt template renders for an input: the prompt's
\* name stands for its fixed text, followed by the injected values.
RenderPrompt(f, input) ==
  CASE f = "generateMinutesOfMeeting" ->
         <<Str(PromptName(f)), input.v.transcription,
           IF Truthy(input.v.previousMom) THEN input.v.previousMom
           ELSE Str("This is the first meeting")>>
    [] f = "summarizeMeetingKeyPoints" ->
         <<Str(PromptName(f)), input.v.transcription,
           IF Truthy(input.v.previousMom) THEN input.v.previousMom
           ELSE Str("")>>
    [] f = "extractActionItems" ->
         <<Str(PromptName(f)), input.v.transcript>>

\* ai.generate({model, prompt: [{media: {url: videoDataUri}}, {text}]})
GenerateRequest(input) ==
  <<Str("media"), input.v.videoDataUri,
    Str("Transcribe the audio from this video")>>

\* A data URI, split at its delimiters: 'data:' <mimetype> ';base64,' <data>.
DataUri(mime, encoded) == Str(<<"data:", mime, ";base64,", encoded>>)

PlainUrl(url) == Str(<<url>>)

IsBase64DataUri(v) ==
  /\ v.t = "string"
  /\ Len(v.v) = 4
  /\ v.v[1] = "data:"
  /\ v.v[2] # ""
  /\ v.v[3] = ";base64,"


----------------------------------------------------------------------------
\* ---- what callers pass and what the remote model answers

TranscriptionInputs ==
  {Obj([transcription |-> Str("A"), previousMom |-> Undefined]),
   Obj([transcription |-> Str("B"), previousMom |-> Str("P")]),
   Obj([transcription |-> Num, previousMom |-> Undefined])}

Inputs(f) ==
  CASE f \in {"generateMinutesOfMeeting", "summarizeMeetingKeyPoints"} ->
         TranscriptionInputs
    [] f = "extractActionItems" ->
         {Obj([transcript |-> x]) : x \in {Str("A"), Str("B"), Num}}
    [] f = "transcribeVideo" ->
         {Obj([videoDataUri |-> x]) :
            x \in {DataUri("video/mp4", "AAAA"),
                   PlainUrl("https://example.com/meeting.mp4"), Num}}

ActionItem(deadline) ==
  Obj([task |-> Str("t"), owner |-> Str("o"), deadline |-> deadline])

\* What a successful remote call may carry: for a prompt its `output` (null,
\* an object of the declared shape, an object that is not), for ai.generate
\* its `text`.
Outputs(f) ==
  CASE f = "generateMinutesOfMeeting" ->
         {Null,
          Obj([summary |-> Str("s"), minutesOfMeeting |-> Str("m"),
               actionItems |-> Str("a")]),
          Obj([summary |-> Str("s"), minutesOfMeeting |-> Str("m"),
               actionItems |-> Undefined])}
    [] f = "summarizeMeetingKeyPoints" ->
         {Null, Obj([summary |-> Str("s")]), Obj([summary |-> Num])}
    [] f = "extractActionItems" ->
         {Null,
          Obj([actionItems |-> Arr(<<ActionItem(Str("d"))>>)]),
          Obj([actionItems |-> Arr(<<ActionItem(Undefined)>>)])}
    [] f = "transcribeVideo" -> {Str("hello"), Str("")}

Failure == [ok |-> FALSE, error |-> "remoteCallFailed", output |-> Undefined]

Success(output) == [ok |-> TRUE, error |-> "none", output |-> output]

Responses(f) == {Failure} \cup {Success(o) : o \in Outputs(f)}

----------------------------------------------------------------------------
\* ---- the flow functions

Invocations == 1..MaxInv

NoResponse == [ok |-> FALSE, error |-> "none", output |-> Undefined]

Pending == [kind |-> "pending", value |-> Undefined, error |-> "none"]

Resolved(value) == [kind |-> "resolved", value |-> value, error |-> "none"]

Rejected(error) == [kind |-> "rejected", value |-> Undefined, error |-> error]

Idle ==
  [pc |-> "idle", flow |-> "none", input |-> Undefined, calls |-> 0,
   request |-> <<>>, response |-> NoResponse, outcome |-> Pending]

\* A faulty variant of HandlerInput: the input of the latest invocation
\* that defined i's flow name (a handler reading shared state).
LatestDefinersInput(i) == inv[registry[FlowName(inv[i].flow)]].input

\* What the handler of invocation i works on: its own parameter, which the
\* flow was called with (`async input =>`, `async ({videoDataUri}) =>`).
HandlerInput(i) == inv[i].input

\* The remote call the handler makes: prompt(input), or ai.generate(...).
HandlerRequest(f, input) ==
  IF f \in PromptFlows THEN RenderPrompt(f, input) ELSE GenerateRequest(input)

\* A faulty variant of HandlerReturn: `return {summary: output.summary}`,
\* the other declared fields dropped.
HandlerReturnsPart(f, res) ==
  IF f \in PromptFlows
  THEN IF res.output.t = "object"
       THEN Obj([name \in DOMAIN res.output.v |->
                   IF name = "summary" THEN res.output.v[name] ELSE Undefined])
       ELSE res.output
  ELSE Obj([transcript |-> res.output])

\* What the handler returns after a successful call: `return output!` (the
\* non-null assertion compiles to nothing), or `return { transcript }`.
HandlerReturn(f, res) ==
  IF f \in PromptFlows THEN res.output ELSE Obj([transcript |-> res.output])

\* A faulty variant of HandlerOnFailure: the handler catches and calls again.
HandlerRetries(f) == "retry"

\* What the handler does when the awaited call throws: there is no
\* try/catch around the await, so the exception leaves the handler.
HandlerOnFailure(f) == "throw"

\* The flow checks what it is called with against its inputSchema.
ValidInput(f, input) == Conforms(input, FlowInputSchema(f))

\* The flow checks what its handler returned against its outputSchema.
ValidOutput(f, output) == Conforms(output, FlowOutputSchema(f))

\* The synchronous body of an exported function: definePrompt (where the
\* function has one), defineFlow, and the call of the flow with `input`.
\* A name already in the registry is defined again.
Invoke(i, f, input) ==
  /\ inv[i].pc = "idle"
  /\ registry' = [n \in ActionNames |->
                    IF n \in DefinedBy(f) THEN i ELSE registry[n]]
  /\ inv' = [inv EXCEPT ![i] = [Idle EXCEPT !.pc = "flowCalled",
                                            !.flow = f, !.input = input]]
  /\ UNCHANGED kmVars

\* The flow starts: an input that fails the inputSchema rejects the call;
\* otherwise the handler runs up to its await, issuing the remote call.
RunFlow(i) ==
  /\ inv[i].pc = "flowCalled"
  /\ LET f == inv[i].flow
     IN  IF ValidInput(f, inv[i].input)
         THEN inv' = [inv EXCEPT
                        ![i].pc = "awaiting",
                        ![i].calls = @ + 1,
                        ![i].request = HandlerRequest(f, HandlerInput(i))]
         ELSE inv' = [inv EXCEPT
                        ![i].pc = "rejected",
                        ![i].outcome = Rejected("inputSchemaViolation")]
  /\ UNCHANGED <<registry, kmVars>>

\* The remote call of invocation i of flow f settles and the handler
\* resumes: a failure leaves the handler as the flow's rejection; a success
\* is returned by the handler and checked against the outputSchema.
Respond(i, f, res) ==
  /\ inv[i].pc = "awaiting"
  /\ inv[i].flow = f
  /\ LET returned == HandlerReturn(f, res)
     IN  IF ~res.ok
         THEN IF HandlerOnFailure(f) = "throw"
              THEN inv' = [inv EXCEPT ![i].pc = "rejected",
                                      ![i].response = res,
                                      ![i].outcome = Rejected(res.error)]
              ELSE inv' = [inv EXCEPT ![i].pc = "flowCalled",
                                      ![i].response = res]
         ELSE IF ValidOutput(f, returned)
              THEN inv' = [inv EXCEPT ![i].pc = "resolved",
                                      ![i].response = res,
                                      ![i].outcome = Resolved(returned)]
              ELSE inv' = [inv EXCEPT
                             ![i].pc = "rejected",
                             ![i].response = res,
                             ![i].outcome = Rejected("outputSchemaViolation")]
  /\ UNCHANGED <<registry, kmVars>>

Next ==
  \/ \E i \in Invocations : \E f \in Flows : \E input \in Inputs(f) :
       Invoke(i, f, input)
  \/ \E i \in Invocations : RunFlow(i)
  \/ \E i \in Invocations : \E f \in Flows : \E res \in Responses(f) :
       Respond(i, f, res)

FlowsIdle ==
  /\ registry = [n \in ActionNames |-> 0]
  /\ inv = [i \in Invocations |-> Idle]

\* The script of the K-means example before its call of kMeans.
KMeansNotCalled ==
  /\ vocabulary = Vocabulary(sentences)
  /\ data = Vectors(sentences, vocabulary)
  /\ k = numberOfClusters
  /\ centroids = <<>>
  /\ prevCentroids = <<>>
  /\ assignments = <<>>
  /\ changed = FALSE
  /\ kmPc = "call"
  /\ kmResult = <<>>
  /\ hadEmpty = FALSE
  /\ iters = 0

Init == FlowsIdle /\ KMeansNotCalled

Spec == Init /\ [][Next]_vars

----------------------------------------------------------------------------
\* ---- claims about the flows

\* The contracts as each file declares them.
DeclaredInput(f) ==
  CASE f = "generateMinutesOfMeeting" -> GenerateMinutesOfMeetingInputSchema
    [] f = "summarizeMeetingKeyPoints" -> SummarizeMeetingKeyPointsInputSchema
    [] f = "extractActionItems" -> ExtractActionItemsInputSchema
    [] f = "transcribeVideo" -> TranscribeVideoInputSchema

DeclaredOutput(f) ==
  CASE f = "generateMinutesOfMeeting" -> GenerateMinutesOfMeetingOutputSchema
    [] f = "summarizeMeetingKeyPoints" -> SummarizeMeetingKeyPointsOutputSchema
    [] f = "extractActionItems" -> ExtractActionItemsOutputSchema
    [] f = "transcribeVideo" -> TranscribeVideoOutputSchema

Started(i) == inv[i].pc # "idle"

Ended(i) == inv[i].pc \in {"resolved", "rejected"}

RemoteFailed(i) == ~inv[i].response.ok /\ inv[i].response.error # "none"

\* C1: an invocation of one of the three prompt flows with a schema-valid
\* input issues exactly one remote call (none before the flow has run, one
\* from then on), and when the call succeeds with an output of the declared
\* shape the function resolves with exactly that output.
FlowReturnsModelOutput ==
  \A i \in Invocations :
    (Started(i) /\ inv[i].flow \in PromptFlows
       /\ Conforms(inv[i].input, DeclaredInput(inv[i].flow))) =>
      /\ inv[i].calls = (IF inv[i].pc = "flowCalled" THEN 0 ELSE 1)
      /\ (Ended(i) /\ inv[i].response.ok
            /\ Conforms(inv[i].response.output, DeclaredOutput(inv[i].flow))) =>
           inv[i].outcome = Resolved(inv[i].response.output)

\* C1 witness: generateMinutesOfMeeting resolved, after one call, with the
\* three-field object the model returned.
FlowReturnsModelOutputWitness ==
  \E i \in Invocations :
    /\ inv[i].flow = "generateMinutesOfMeeting"
    /\ inv[i].pc = "resolved"
    /\ inv[i].calls = 1
    /\ inv[i].response.ok
    /\ inv[i].outcome.value = inv[i].response.output
    /\ inv[i].outcome.value.v.actionItems = Str("a")

\* C2: an invocation has ended exactly when it has resolved or rejected; a
\* resolved one carries a non-null value of the flow's declared output
\* shape, a rejected one the failure of the remote call or a violation of a
\* declared schema; a null output of the model never resolves.
FlowResolvesConformingOrRejects ==
  \A i \in Invocations :
    /\ Ended(i) <=> inv[i].outcome.kind # "pending"
    /\ inv[i].pc = "resolved" <=> inv[i].outcome.kind = "resolved"
    /\ inv[i].outcome.kind = "resolved" =>
         /\ inv[i].outcome.value.t # "null"
         /\ Conforms(inv[i].outcome.value, DeclaredOutput(inv[i].flow))
    /\ inv[i].outcome.kind = "rejected" =>
         inv[i].outcome.error \in {"remoteCallFailed", "inputSchemaViolation",
                                   "outputSchemaViolation"}
    /\ (Ended(i) /\ inv[i].response.ok /\ inv[i].response.output.t = "null") =>
         inv[i].outcome.kind = "rejected"

\* C2 witness: the model answered a prompt with a null output and the
\* invocation rejected on the output schema.
FlowResolvesConformingOrRejectsWitness ==
  \E i \in Invocations :
    /\ inv[i].flow \in PromptFlows
    /\ inv[i].response.ok
    /\ inv[i].response.output.t = "null"
    /\ inv[i].outcome = Rejected("outputSchemaViolation")

\* C3: no flow recovers from a failed remote call: once the call of an
\* invocation has failed, the invocation has rejected with that failure and
\* has made that one call only; no invocation ever makes a second call.
NoRetryOnFailure ==
  \A i \in Invocations :
    /\ inv[i].calls <= 1
    /\ RemoteFailed(i) =>
         /\ inv[i].pc = "rejected"
         /\ inv[i].outcome = Rejected(inv[i].response.error)
         /\ inv[i].calls = 1

\* C3 witness: the remote call of a transcribeVideo invocation and that of
\* a prompt flow's invocation have both failed.
NoRetryOnFailureWitness ==
  \E i, j \in Invocations :
    /\ inv[i].flow = "transcribeVideo"
    /\ inv[j].flow \in PromptFlows
    /\ RemoteFailed(i)
    /\ RemoteFailed(j)
    /\ inv[i].outcome = Rejected("remoteCallFailed")

\* The outcome of an invocation as a function of its flow, its own input and
\* the response to its own request.
OutcomeFrom(f, input, res) ==
  IF ~Conforms(input, DeclaredInput(f)) THEN Rejected("inputSchemaViolation")
  ELSE IF ~res.ok THEN Rejected(res.error)
  ELSE LET value == IF f = "transcribeVideo"
                    THEN Obj([transcript |-> res.output]) ELSE res.output
       IN  IF Conforms(value, DeclaredOutput(f)) THEN Resolved(value)
           ELSE Rejected("outputSchemaViolation")

\* The values of an input object, and those a request carries.
ValuesOf(input) == {input.v[name] : name \in DOMAIN input.v}

\* C4: under every interleaving, whatever the registry holds: the request of
\* an invocation carries values of its own input only (besides the fixed
\* text of its template), and its outcome is the function OutcomeFrom of its
\* own flow, input and response.
InvocationsIndependent ==
  \A i \in Invocations :
    /\ inv[i].calls > 0 =>
         /\ inv[i].request = HandlerRequest(inv[i].flow, inv[i].input)
         /\ inv[i].request[2] \in ValuesOf(inv[i].input)
    /\ Ended(i) =>
         inv[i].outcome = OutcomeFrom(inv[i].flow, inv[i].input, inv[i].response)

\* C4 witness: two invocations of one function with different inputs; the
\* second defined the shared names again while the first was in flight, the
\* first has resolved and the second is still waiting for the model.
InvocationsIndependentWitness ==
  \E i, j \in Invocations :
    /\ i # j
    /\ inv[i].flow = inv[j].flow
    /\ inv[i].flow \in PromptFlows
    /\ inv[i].input # inv[j].input
    /\ registry[FlowName(inv[i].flow)] = j
    /\ registry[PromptName(inv[i].flow)] = j
    /\ inv[i].pc = "resolved"
    /\ inv[j].pc = "awaiting"

\* C8: the video transcribeVideo hands to the remote model is always a
\* data URI with a MIME type and Base64 encoding: an input whose
\* videoDataUri is not of that form is rejected without a remote call.
VideoIsAlwaysBase64DataUri ==
  \A i \in Invocations :
    (inv[i].flow = "transcribeVideo"
       /\ ~IsBase64DataUri(inv[i].input.v.videoDataUri)) =>
      /\ inv[i].calls = 0
      /\ inv[i].pc \in {"flowCalled", "rejected"}

\* What the code does with a string that is no data URI: it is sent on.
PlainUrlIsSent ==
  \E i \in Invocations :
    /\ inv[i].flow = "transcribeVideo"
    /\ inv[i].calls = 1
    /\ inv[i].request[2] = PlainUrl("https://example.com/meeting.mp4")

----------------------------------------------------------------------------
\* ---- the inputs of kMeans

BitVectors(dim) == [1..dim -> {0, 1}]

RECURSIVE ListsOf(_, _)
ListsOf(S, n) ==
  IF n = 0 THEN {<<>>}
  ELSE LET shorter == ListsOf(S, n - 1)
       IN  shorter \cup {Append(l, x) : l \in {m \in shorter : Len(m) = n - 1}, x \in S}

BoundedVocabulary(dim) == [w \in 1..dim |-> w]

IsSample == vocabulary = Vocabulary(sentences)

\* Either the script's own call kMeans(vectors, numberOfClusters), or a call
\* with a bounded list of 0/1 vectors over a bounded vocabulary.
InitKM ==
  /\ \/ /\ vocabulary = Vocabulary(sentences)
        /\ data = Vectors(sentences, vocabulary)
        /\ k = numberOfClusters
     \/ /\ \E dim \in 1..MaxDim :
             /\ vocabulary = BoundedVocabulary(dim)
             /\ data \in ListsOf(BitVectors(dim), MaxPoints)
        /\ k \in 1..MaxK
  /\ centroids = <<>>
  /\ prevCentroids = <<>>
  /\ assignments = <<>>
  /\ changed = FALSE
  /\ kmPc = "call"
  /\ kmResult = <<>>
  /\ hadEmpty = FALSE
  /\ iters = 0
  /\ FlowsIdle

SpecKM == InitKM /\ [][NextKM]_vars

FairSpecKM == SpecKM /\ WF_vars(NextKM)


----------------------------------------------------------------------------
\* ---- claims about kMeans

ViaLoop == kmPc = "done" /\ Len(data) >= k

Members(i) == {p \in DOMAIN data : kmResult[p] = i}

\* The squared distance from point p to centroid j, as a fraction, is at
\* most (resp. less than) that to centroid i.
AtMost(p, j, i) ==
  LET x == euclideanDistance(data[p], centroids[j])
      y == euclideanDistance(data[p], centroids[i])
  IN  x.n * y.d <= y.n * x.d

Closer(p, j, i) ==
  LET x == euclideanDistance(data[p], centroids[j])
      y == euclideanDistance(data[p], centroids[i])
  IN  x.n * y.d < y.n * x.d

\* C5: once kMeans has entered its while (changed) loop it reaches an
\* iteration that changes no assignment, and returns.
KMeansTerminates == (kmPc = "loop") ~> (kmPc = "done")

\* C5 witness: a return after at least three iterations (the assignments
\* still changed in the second one), one of which left a cluster empty.
KMeansTerminatesWitness ==
  /\ ViaLoop
  /\ iters >= 3
  /\ hadEmpty

\* C6: what kMeans returns has one entry per data point, each a cluster
\* index in 0..k-1; on the early-return path point i (0-based) gets i.
ResultIsAssignment ==
  kmPc = "done" =>
    /\ Len(kmResult) = Len(data)
    /\ \A p \in DOMAIN kmResult : kmResult[p] \in 0..(k - 1)
    /\ Len(data) < k => \A p \in DOMAIN kmResult : kmResult[p] = p - 1

\* C6 witness: a return from the loop with k = 3 that uses the last index.
ResultIsAssignmentWitness ==
  /\ ViaLoop
  /\ k = 3
  /\ \E p \in DOMAIN kmResult : kmResult[p] = k - 1

\* C6, the early-return path taken with at least two points.
EarlyReturnTaken == kmPc = "done" /\ Len(data) < k /\ Len(data) >= 2

\* C7: on the six sample sentences with k = 2 kMeans puts sentences 1, 2, 4
\* and 5 in cluster 1 (index 0) and sentences 3 and 6 in cluster 2 (index 1),
\* as the expected output documented at the end of the file shows.
SampleMatchesDocumentedOutput ==
  (IsSample /\ kmPc = "done") => kmResult = <<0, 0, 1, 0, 0, 1>>

\* What the code returns on the sample.
SampleActualOutput ==
  (IsSample /\ kmPc = "done") => kmResult = <<0, 1, 1, 0, 0, 1>>

=============================================================================
